---- MODULE Spec2Model ----
(***************************************************************************)
(* Model of the INE command-line client (notebooks/ine_cli.py) and of the  *)
(* helper script (notebooks/ine_utils.py).                                 *)
(*                                                                         *)
(* JSON scalars and dataframe cells are records [t, s, a, b]:              *)
(*   t = "null"  a missing value (None / NaN / NaT)                        *)
(*   t = "str"   a string, s its characters                                *)
(*   t = "num"   the number a / 10^b                                       *)
(*   t = "date"  the instant  epoch + a days + b milliseconds              *)
(* A JSON object is a function from its keys to values; a JSON array is a  *)
(* sequence.  A dataframe is [exc, columns, rows]: exc names the exception *)
(* raised while building it ("" when none), columns is the sequence of     *)
(* column labels (labels may repeat), rows the sequence of rows of cells.  *)
(* Column order: pandas lists keys in order of first appearance; the model *)
(* lists them in the fixed order KeyOrder.                                 *)
(***************************************************************************)
EXTENDS Integers, Sequences, FiniteSets, TLC

VARIABLES
    pc,         \* position of the process: start, parsed, fetch, transform,
                \* present, export, return, except, exit
    args,       \* the parsed command line (NoArgs before parse_args)
    raw,        \* the JSON value the GET returned (<<>> before it)
    df,         \* the command's dataframe (NoFrame before it is built)
    filas,      \* descargar_tabla_ine_json's dataframe (NoFrame before)
    gets,       \* number of HTTP GETs issued
    stdout,     \* lines printed to the console so far
    stderr,     \* lines printed to the error stream so far
    csv,        \* the exported file (NoFrame when none was written)
    exc,        \* the exception that reached main's handlers ("" when none)
    exitCode    \* the process exit code (-1 while running)

vars == <<pc, args, raw, df, filas, gets, stdout, stderr, csv, exc, exitCode>>

----------------------------------------------------------------------------
(* Bounds                                                                  *)

MaxSeries == 2

MaxTotalObs == 2

MaxCliObs == 1

MaxOps == 2

----------------------------------------------------------------------------
(* Values                                                                  *)

MS_PER_DAY == 86400000

Null == [t |-> "null", s |-> <<>>, a |-> 0, b |-> 0]

Str(chars) == [t |-> "str", s |-> chars, a |-> 0, b |-> 0]

RECURSIVE NormNum(_, _)
NormNum(m, d) ==
    IF d > 0 /\ m % 10 = 0 THEN NormNum(m \div 10, d - 1)
    ELSE [t |-> "num", s |-> <<>>, a |-> m, b |-> d]

Num(m, d) == NormNum(m, d)

Date(day, ms) == [t |-> "date", s |-> <<>>, a |-> day, b |-> ms]

IsNull(v) == v.t = "null"

DigitChars == <<"0", "1", "2", "3", "4", "5", "6", "7", "8", "9">>

Digits == {DigitChars[i] : i \in 1..Len(DigitChars)}

DigitVal(c) == (CHOOSE i \in 1..Len(DigitChars) : DigitChars[i] = c) - 1

Whitespace == {" "}

RECURSIVE Pow10(_)
Pow10(n) == IF n = 0 THEN 1 ELSE 10 * Pow10(n - 1)

(* str.strip(): drop leading and trailing whitespace.                      *)
RECURSIVE LStrip(_)
LStrip(chars) ==
    IF chars # <<>> /\ Head(chars) \in Whitespace THEN LStrip(Tail(chars)) ELSE chars

RECURSIVE RStrip(_)
RStrip(chars) ==
    IF chars # <<>> /\ chars[Len(chars)] \in Whitespace
    THEN RStrip(SubSeq(chars, 1, Len(chars) - 1))
    ELSE chars

Strip(chars) == RStrip(LStrip(chars))

(* Decimal literal  digits [ "." digits ]  with at least one digit; the    *)
(* result is Null for anything else.  Characters are read left to right,   *)
(* m the digits read so far, d the number of them after the point (-1      *)
(* before the point), n the number of digits.                              *)
RECURSIVE ParseFrom(_, _, _, _, _)
ParseFrom(chars, i, m, d, n) ==
    IF i > Len(chars)
    THEN IF n = 0 THEN Null ELSE Num(m, IF d < 0 THEN 0 ELSE d)
    ELSE IF chars[i] \in Digits
         THEN ParseFrom(chars, i + 1, 10 * m + DigitVal(chars[i]),
                        IF d < 0 THEN d ELSE d + 1, n + 1)
         ELSE IF chars[i] = "." /\ d < 0
              THEN ParseFrom(chars, i + 1, m, 0, n)
              ELSE Null

ParseNumber(chars) == ParseFrom(chars, 1, 0, -1, 0)

(* One cell of pd.to_numeric(..., errors="coerce").                        *)
ToNumericBadKeepsText(v) ==
    CASE v.t = "num" -> v
      [] v.t = "str" -> IF IsNull(ParseNumber(v.s)) THEN v ELSE ParseNumber(v.s)
      [] OTHER -> Null

to_numeric(v) ==
    CASE v.t = "num" -> v
      [] v.t = "str" -> ParseNumber(v.s)
      [] OTHER -> Null

(* One cell of pd.to_datetime(..., unit="ms", errors="coerce"): a number   *)
(* (or a numeric string) is that many milliseconds after the epoch.  The   *)
(* model holds whole milliseconds only.                                    *)
MsToDate(v) ==
    LET ms == v.a \div Pow10(v.b)
    IN  Date(ms \div MS_PER_DAY, ms % MS_PER_DAY)

to_datetime(v) ==
    CASE v.t = "num" -> MsToDate(v)
      [] v.t = "str" -> IF IsNull(ParseNumber(v.s)) THEN Null ELSE MsToDate(ParseNumber(v.s))
      [] OTHER -> Null

----------------------------------------------------------------------------
(* Dataframes                                                              *)

NoFrame == [exc |-> "none", columns |-> <<>>, rows |-> <<>>]

EmptyFrame == [exc |-> "", columns |-> <<>>, rows |-> <<>>]

Raise(e) == [exc |-> e, columns |-> <<>>, rows |-> <<>>]

Frame(cols, rws) == [exc |-> "", columns |-> cols, rows |-> rws]

(* DataFrame.empty: some axis has length 0.                                *)
IsEmpty(f) == Len(f.columns) = 0 \/ Len(f.rows) = 0

KeyOrder == <<"COD", "Nombre", "Data", "Fecha", "FK_Periodo", "Anyo", "Valor">>

Get(d, k) == IF k \in DOMAIN d THEN d[k] ELSE Null

(* The positions of the columns labelled k.                                *)
ColsNamed(cols, k) == {j \in 1..Len(cols) : cols[j] = k}

(* Keys of a sequence of objects, as column labels.                        *)
KeysOf(objs) ==
    SelectSeq(KeyOrder, LAMBDA k : \E i \in 1..Len(objs) : k \in DOMAIN objs[i])

----------------------------------------------------------------------------
(* get_datos_tabla: the transform applied to what fetch_json returned      *)

(* The cell DataFrame.explode leaves for a list-like with no element, and  *)
(* for a series that has no "Data" key at all: NaN.                        *)
NaNCell(i) == [idx |-> i, na |-> TRUE, rec |-> [k \in {} |-> Null]]

(* DataFrame.explode("Data") on one series: one row per element of its     *)
(* list, and one row holding NaN when the list is empty or missing.        *)
ExplodeOne(i, serie) ==
    IF "Data" \in DOMAIN serie /\ Len(serie["Data"]) > 0
    THEN [k \in 1..Len(serie["Data"]) |-> [idx |-> i, na |-> FALSE, rec |-> serie["Data"][k]]]
    ELSE <<NaNCell(i)>>

RECURSIVE ExplodeFrom(_, _)
ExplodeFrom(r, i) ==
    IF i > Len(r) THEN <<>> ELSE ExplodeOne(i, r[i]) \o ExplodeFrom(r, i + 1)

(* df_long: the exploded rows, each with the position of its series.       *)
df_long(r) == ExplodeFrom(r, 1)

(* cols_meta: every column of df_series but "Data".                        *)
cols_meta(r) == SelectSeq(KeysOf(r), LAMBDA k : k # "Data")

(* df_meta: the metadata of the series each exploded row came from.        *)
MetaOfFirstSeries(r) ==
    LET long == df_long(r)
        cols == cols_meta(r)
    IN  [k \in 1..Len(long) |-> [c \in 1..Len(cols) |-> Get(r[1], cols[c])]]

df_meta(r) ==
    LET long == df_long(r)
        cols == cols_meta(r)
    IN  [k \in 1..Len(long) |-> [c \in 1..Len(cols) |-> Get(r[long[k].idx], cols[c])]]

(* pd.json_normalize(df_long["Data"]): one row per cell, a column per key  *)
(* of any observation; a cell that is not an object (NaN) gives a row with *)
(* no key, so every cell of that row is missing.                           *)
values_columns(r) ==
    LET long == df_long(r)
    IN  SelectSeq(KeyOrder,
                  LAMBDA k : \E i \in 1..Len(long) : ~long[i].na /\ k \in DOMAIN long[i].rec)

df_values(r) ==
    LET long == df_long(r)
        cols == values_columns(r)
    IN  [k \in 1..Len(long) |->
            [c \in 1..Len(cols) |-> IF long[k].na THEN Null ELSE Get(long[k].rec, cols[c])]]

(* pd.concat([df_meta, df_values], axis=1): the columns side by side,      *)
(* repeated labels kept.                                                   *)
concat(r) ==
    LET m == df_meta(r)
        v == df_values(r)
    IN  Frame(cols_meta(r) \o values_columns(r), [k \in 1..Len(m) |-> m[k] \o v[k]])

(* The conversion get_datos_tabla applies to the cells of column label.    *)
CoerceCell(label, v) == IF label = "Fecha" THEN to_datetime(v) ELSE to_numeric(v)

(* df[label] = convert(df[label]) for the column at position j.            *)
MapColumn(rws, j, label) ==
    [k \in 1..Len(rws) |->
        [c \in 1..Len(rws[k]) |-> IF c = j THEN CoerceCell(label, rws[k][c]) ELSE rws[k][c]]]

(* if label in df.columns: df[label] = convert(df[label]).  With the label *)
(* on two columns df[label] is a dataframe, which the conversion refuses   *)
(* (e).                                                                    *)
CoerceColumn(f, label, e) ==
    LET js == ColsNamed(f.columns, label)
    IN  IF f.exc # "" \/ js = {} THEN f
        ELSE IF Cardinality(js) > 1 THEN Raise(e)
        ELSE Frame(f.columns, MapColumn(f.rows, CHOOSE j \in js : TRUE, label))

DatosFrame(r) ==
    IF Len(r) = 0 THEN EmptyFrame
    ELSE IF ~(\E i \in 1..Len(r) : "Data" \in DOMAIN r[i]) THEN Raise("KeyError")
    ELSE CoerceColumn(CoerceColumn(concat(r), "Fecha", "ValueError"), "Valor", "TypeError")

----------------------------------------------------------------------------
(* descargar_tabla_ine_json: the loop over what r.json() returned          *)

HelperColumns == <<"serie", "codigo", "periodo", "anyo", "valor">>

(* One appended row; a missing key raises KeyError, a name that is not a   *)
(* string has no strip().  The entries are evaluated in source order.      *)
HelperRow(serie, d) ==
    IF "Nombre" \notin DOMAIN serie THEN Raise("KeyError")
    ELSE IF serie["Nombre"].t # "str" THEN Raise("AttributeError")
    ELSE IF "COD" \notin DOMAIN serie THEN Raise("KeyError")
    ELSE IF {"FK_Periodo", "Anyo", "Valor"} \ DOMAIN d # {} THEN Raise("KeyError")
    ELSE Frame(HelperColumns,
               << <<Str(Strip(serie["Nombre"].s)), serie["COD"],
                    d["FK_Periodo"], d["Anyo"], d["Valor"]>> >>)

(* The rows appended from observation k of series i onwards.               *)
RECURSIVE HelperFrom(_, _, _)
HelperFrom(r, i, k) ==
    IF i > Len(r) THEN Frame(HelperColumns, <<>>)
    ELSE LET obs == IF "Data" \in DOMAIN r[i] THEN r[i]["Data"] ELSE <<>>
         IN  IF k > Len(obs) THEN HelperFrom(r, i + 1, 1)
             ELSE LET row == HelperRow(r[i], obs[k])
                      rest == HelperFrom(r, i, k + 1)
                  IN  IF row.exc # "" THEN row
                      ELSE IF rest.exc # "" THEN rest
                      ELSE Frame(HelperColumns, row.rows \o rest.rows)

(* pd.DataFrame(filas): no row gives a dataframe with no column.           *)
HelperFrame(r) ==
    LET f == HelperFrom(r, 1, 1)
    IN  IF f.exc = "" /\ Len(f.rows) = 0 THEN EmptyFrame ELSE f

----------------------------------------------------------------------------
(* Inputs                                                                  *)

sA == <<" ", "A", " ">>

sB == <<"B">>

(* Series metadata: complete, the name with blanks around it; complete     *)
(* with series-level fields called "Fecha" and "Valor"; without a name.    *)
MetaPool ==
    { [Nombre |-> Str(sA), COD |-> Str(<<"C", "1">>)],
      [Nombre |-> Str(sB), COD |-> Str(<<"C", "2">>),
       Fecha |-> Str(<<"x">>), Valor |-> Num(7, 0)],
      [COD |-> Str(<<"C", "3">>)] }

(* Observations: well formed, the value a numeral; with a timestamp and a  *)
(* value that are no numbers; with a field called like a metadata field    *)
(* and no timestamp, value or period.                                      *)
ObsPool ==
    { [Fecha |-> Num(MS_PER_DAY, 0), Valor |-> Str(<<"1", "2", ".", "5">>),
       FK_Periodo |-> Num(1, 0), Anyo |-> Num(2020, 0)],
      [Fecha |-> Str(<<"b", "a", "d">>), Valor |-> Str(<<"b", "a", "d">>),
       FK_Periodo |-> Num(2, 0), Anyo |-> Num(2020, 0)],
      [Nombre |-> Str(<<"n">>), Anyo |-> Num(2021, 0)] }

NObs(serie) == IF "Data" \in DOMAIN serie THEN Len(serie["Data"]) ELSE 0

(* The series with at most n observations: with a "Data" list, or with no  *)
(* "Data" key.                                                             *)
SeriesUpTo(n) ==
    MetaPool \cup
    UNION { { m @@ ("Data" :> d) : m \in MetaPool, d \in [1..k -> ObsPool] } : k \in 0..n }

(* The responses of at most n series and at most budget observations.      *)
RECURSIVE ResponsesOf(_, _)
ResponsesOf(n, budget) ==
    IF n = 0 THEN {<<>>}
    ELSE {<<>>} \cup
         UNION { { <<s>> \o r : r \in ResponsesOf(n - 1, budget - NObs(s)) } :
                 s \in SeriesUpTo(budget) }

Responses == ResponsesOf(MaxSeries, MaxTotalObs)

----------------------------------------------------------------------------
(* The list commands: get_operaciones, get_tablas, the --buscar filter     *)

(* pd.DataFrame(data)[cols]: KeyError when a label is no key of any record.*)
SelectColumns(objs, cols) ==
    IF \A j \in 1..Len(cols) : \E i \in 1..Len(objs) : cols[j] \in DOMAIN objs[i]
    THEN Frame(cols, [i \in 1..Len(objs) |-> [j \in 1..Len(cols) |-> Get(objs[i], cols[j])]])
    ELSE Raise("KeyError")

OperacionesColumns == <<"Id", "Codigo", "Nombre">>

TablasColumns == <<"Id", "Nombre", "Anyo_Periodo_Ini", "Anyo_Periodo_Fin">>

OperacionesFrame(objs) == SelectColumns(objs, OperacionesColumns)

TablasFrame(objs) ==
    IF Len(objs) = 0 THEN EmptyFrame ELSE SelectColumns(objs, TablasColumns)

UpperChars == <<"A", "B", "C">>

LowerChars == <<"a", "b", "c">>

(* Case folding of re.IGNORECASE on the letters of the model.              *)
Lower(c) ==
    IF \E i \in 1..Len(UpperChars) : UpperChars[i] = c
    THEN LowerChars[CHOOSE i \in 1..Len(UpperChars) : UpperChars[i] = c]
    ELSE c

(* re.compile(pat): an unbalanced parenthesis is an error.  The patterns   *)
(* of the model are made of letters, "." and "(".                          *)
RegexValid(pat) == \A j \in 1..Len(pat) : pat[j] \notin {"(", ")"}

(* re.search(pat, text, re.IGNORECASE): the pattern matches at some        *)
(* offset; "." matches any character, a letter matches itself in either    *)
(* case.                                                                   *)
RegexSearch(pat, text) ==
    \E off \in 0..(Len(text) - Len(pat)) :
        \A j \in 1..Len(pat) : pat[j] = "." \/ Lower(pat[j]) = Lower(text[off + j])

(* df[df["Nombre"].str.contains(pat, case=False, na=False)]               *)
FilterNombre(f, pat) ==
    LET j == CHOOSE c \in 1..Len(f.columns) : f.columns[c] = "Nombre"
    IN  IF ~RegexValid(pat) THEN Raise("re.error")
        ELSE Frame(f.columns,
                   SelectSeq(f.rows, LAMBDA row : row[j].t = "str" /\ RegexSearch(pat, row[j].s)))

(* Truth value of an optional string argument: given and not empty.        *)
Truthy(v) == v.t = "str" /\ Len(v.s) > 0

----------------------------------------------------------------------------
(* Command lines and responses                                             *)

NoArgs == [comando |-> "", buscar |-> Null, output |-> Null]

BuscarPool ==
    { Null, Str(<<>>), Str(<<"a">>), Str(<<"B">>), Str(<<"c", "c">>), Str(<<".">>), Str(<<"(">>) }

OutputPool == { Null, Str(<<>>), Str(<<"f">>) }

ValidArgs ==
    { [comando |-> "operaciones", buscar |-> b, output |-> Null] : b \in BuscarPool }
    \cup { [comando |-> "tablas", buscar |-> Null, output |-> Null] }
    \cup { [comando |-> "datos", buscar |-> Null, output |-> o] : o \in OutputPool }

OpNames == { <<"a", "b">>, <<"A">>, <<"b", "c">> }

Operacion(i, name) == [Id |-> Num(i, 0), Codigo |-> Str(<<"c">>), Nombre |-> Str(name)]

Tabla(i, name) ==
    [Id |-> Num(i, 0), Nombre |-> Str(name),
     Anyo_Periodo_Ini |-> Num(2000, 0), Anyo_Periodo_Fin |-> Num(2020, 0)]

NameLists == UNION { [1..n -> OpNames] : n \in 0..MaxOps }

ResponsesFor(comando) ==
    CASE comando = "operaciones" ->
             { [i \in 1..Len(ns) |-> Operacion(i, ns[i])] : ns \in NameLists }
      [] comando = "tablas" ->
             { [i \in 1..Len(ns) |-> Tabla(i, ns[i])] : ns \in NameLists }
      [] comando = "datos" -> ResponsesOf(MaxSeries, MaxCliObs)

Line(kind, n) == [kind |-> kind, n |-> n]

----------------------------------------------------------------------------
(* The CLI process: main                                                   *)

Init ==
    /\ pc = "start" /\ args = NoArgs /\ raw = <<>> /\ df = NoFrame /\ filas = NoFrame
    /\ gets = 0 /\ stdout = <<>> /\ stderr = <<>> /\ csv = NoFrame
    /\ exc = "" /\ exitCode = -1

(* parser.parse_args() accepts the command line.                           *)
parse_args ==
    /\ pc = "start"
    /\ \E a \in ValidArgs : args' = a
    /\ pc' = "parsed"
    /\ UNCHANGED <<raw, df, filas, gets, stdout, stderr, csv, exc, exitCode>>

(* parser.parse_args() refuses it (no subcommand, an id that is no         *)
(* integer, an unknown option): usage on the error stream, exit code 2.    *)
parse_args_error ==
    /\ pc = "start"
    /\ stderr' = Append(stderr, Line("usage", 0))
    /\ exitCode' = 2
    /\ pc' = "exit"
    /\ UNCHANGED <<args, raw, df, filas, gets, stdout, csv, exc>>

(* parser.parse_args() with -h: the help text, exit code 0.                *)
parse_args_help ==
    /\ pc = "start"
    /\ stdout' = Append(stdout, Line("help", 0))
    /\ exitCode' = 0
    /\ pc' = "exit"
    /\ UNCHANGED <<args, raw, df, filas, gets, stderr, csv, exc>>

(* args.func(args) up to the call of fetch_json: cmd_datos prints its      *)
(* progress line first, the other two commands print nothing.              *)
call_func ==
    /\ pc = "parsed"
    /\ stdout' = IF args.comando = "datos" THEN Append(stdout, Line("descargando", 0))
                 ELSE stdout
    /\ pc' = "fetch"
    /\ UNCHANGED <<args, raw, df, filas, gets, stderr, csv, exc, exitCode>>

(* fetch_json: the GET succeeds and its body parses.                       *)
fetch_json ==
    /\ pc = "fetch"
    /\ gets' = gets + 1
    /\ \E r \in ResponsesFor(args.comando) : raw' = r
    /\ pc' = "transform"
    /\ UNCHANGED <<args, df, filas, stdout, stderr, csv, exc, exitCode>>

(* fetch_json: the GET fails (connection, timeout, HTTP status), or the    *)
(* body is no JSON (a RequestException or a ValueError, by the version of  *)
(* requests).                                                              *)
fetch_json_error ==
    /\ pc = "fetch"
    /\ gets' = gets + 1
    /\ \E e \in {"RequestException", "ValueError"} : exc' = e
    /\ pc' = "except"
    /\ UNCHANGED <<args, raw, df, filas, stdout, stderr, csv, exitCode>>

(* The rest of a get_* function: the dataframe, or the exception.          *)
Built(f) ==
    /\ df' = f
    /\ exc' = f.exc
    /\ pc' = IF f.exc = "" THEN "present" ELSE "except"
    /\ UNCHANGED <<args, raw, filas, gets, stdout, stderr, csv, exitCode>>

get_operaciones ==
    /\ pc = "transform" /\ args.comando = "operaciones"
    /\ Built(OperacionesFrame(raw))

get_tablas ==
    /\ pc = "transform" /\ args.comando = "tablas"
    /\ Built(TablasFrame(raw))

get_datos_tabla ==
    /\ pc = "transform" /\ args.comando = "datos"
    /\ Built(DatosFrame(raw))

(* The table a list command prints: header, rule, a line per row (n the    *)
(* row's Id), total.                                                       *)
Listing(f) ==
    <<Line("header", 0), Line("rule", 0)>>
    \o [k \in 1..Len(f.rows) |-> Line("row", f.rows[k][1].a)]
    \o <<Line("total", Len(f.rows))>>

cmd_operaciones ==
    /\ pc = "present" /\ args.comando = "operaciones"
    /\ LET f == IF Truthy(args.buscar) THEN FilterNombre(df, args.buscar.s) ELSE df
       IN  /\ df' = f
           /\ exc' = f.exc
           /\ stdout' = IF f.exc # "" THEN stdout
                        ELSE IF IsEmpty(f) THEN Append(stdout, Line("noresults", 0))
                        ELSE stdout \o Listing(f)
           /\ pc' = IF f.exc # "" THEN "except" ELSE "return"
    /\ UNCHANGED <<args, raw, filas, gets, stderr, csv, exitCode>>

cmd_tablas ==
    /\ pc = "present" /\ args.comando = "tablas"
    /\ stdout' = IF IsEmpty(df) THEN Append(stdout, Line("noresults", 0))
                 ELSE stdout \o Listing(df)
    /\ pc' = "return"
    /\ UNCHANGED <<args, raw, df, filas, gets, stderr, csv, exc, exitCode>>

(* The summary cmd_datos prints.                                           *)
Summary(f) ==
    <<Line("registros", Len(f.rows)), Line("columnas", Len(f.columns))>>
    \o (IF ColsNamed(f.columns, "Nombre") # {} THEN <<Line("series", 0)>> ELSE <<>>)
    \o (IF ColsNamed(f.columns, "Fecha") # {} THEN <<Line("rango", 0)>> ELSE <<>>)
    \o <<Line("vista", 0)>>

cmd_datos_ExportAlways ==
    /\ pc = "present" /\ args.comando = "datos"
    /\ stdout' = IF IsEmpty(df) THEN Append(stdout, Line("noresults", 0))
                 ELSE stdout \o Summary(df)
    /\ pc' = IF IsEmpty(df) THEN "return" ELSE "export"
    /\ UNCHANGED <<args, raw, df, filas, gets, stderr, csv, exc, exitCode>>

(* cmd_datos from line 123 to line 141.                                    *)
cmd_datos ==
    /\ pc = "present" /\ args.comando = "datos"
    /\ stdout' = IF IsEmpty(df) THEN Append(stdout, Line("noresults", 0))
                 ELSE stdout \o Summary(df)
    /\ pc' = IF IsEmpty(df) THEN "return"
             ELSE IF Truthy(args.output) THEN "export" ELSE "return"
    /\ UNCHANGED <<args, raw, df, filas, gets, stderr, csv, exc, exitCode>>

(* df.to_csv(args.output) and the line that reports it.                    *)
cmd_datos_export ==
    /\ pc = "export"
    /\ csv' = df
    /\ stdout' = Append(stdout, Line("exportado", 0))
    /\ pc' = "return"
    /\ UNCHANGED <<args, raw, df, filas, gets, stderr, exc, exitCode>>

(* df.to_csv cannot write the file.                                        *)
cmd_datos_export_error ==
    /\ pc = "export"
    /\ exc' = "OSError"
    /\ pc' = "except"
    /\ UNCHANGED <<args, raw, df, filas, gets, stdout, stderr, csv, exitCode>>

(* args.func returned: main ends, exit code 0.                             *)
main_return ==
    /\ pc = "return"
    /\ exitCode' = 0
    /\ pc' = "exit"
    /\ UNCHANGED <<args, raw, df, filas, gets, stdout, stderr, csv, exc>>

main_except_NoExit ==
    /\ pc = "except"
    /\ stderr' = Append(stderr, Line(IF exc = "RequestException" THEN "conexion" ELSE "error", 0))
    /\ exitCode' = 0
    /\ pc' = "exit"
    /\ UNCHANGED <<args, raw, df, filas, gets, stdout, csv, exc>>

(* The two except clauses of main.                                         *)
main_except ==
    /\ pc = "except"
    /\ stderr' = Append(stderr, Line(IF exc = "RequestException" THEN "conexion" ELSE "error", 0))
    /\ exitCode' = 1
    /\ pc' = "exit"
    /\ UNCHANGED <<args, raw, df, filas, gets, stdout, csv, exc>>

Next ==
    \/ parse_args \/ parse_args_error \/ parse_args_help
    \/ call_func
    \/ fetch_json \/ fetch_json_error
    \/ get_operaciones \/ get_tablas \/ get_datos_tabla
    \/ cmd_operaciones \/ cmd_tablas
    \/ cmd_datos \/ cmd_datos_export \/ cmd_datos_export_error
    \/ main_return \/ main_except

Spec == Init /\ [][Next]_vars

----------------------------------------------------------------------------
(* SpecFlat: both flatteners applied to one parsed response.  The CLI is   *)
(* at get_datos_tabla with the response in raw; the helper script has the  *)
(* same response from r.json().                                            *)

InitFlat ==
    /\ raw \in Responses
    /\ pc = "transform"
    /\ args = [comando |-> "datos", buscar |-> Null, output |-> Null]
    /\ df = NoFrame /\ filas = NoFrame /\ gets = 1
    /\ stdout = <<Line("descargando", 0)>> /\ stderr = <<>> /\ csv = NoFrame
    /\ exc = "" /\ exitCode = -1

(* descargar_tabla_ine_json from line 19 to line 30.                       *)
descargar_tabla_ine_json ==
    /\ filas = NoFrame
    /\ filas' = HelperFrame(raw)
    /\ UNCHANGED <<pc, args, raw, df, gets, stdout, stderr, csv, exc, exitCode>>

NextFlat == get_datos_tabla \/ descargar_tabla_ine_json

SpecFlat == InitFlat /\ [][NextFlat]_vars

----------------------------------------------------------------------------
(* Properties of the flatteners (checked under SpecFlat)                   *)

(* The observations of a response in input order, each with the position   *)
(* of its series.                                                          *)
RECURSIVE ObsFrom(_, _)
ObsFrom(r, i) ==
    IF i > Len(r) THEN <<>>
    ELSE [k \in 1..NObs(r[i]) |-> [idx |-> i, rec |-> r[i]["Data"][k]]] \o ObsFrom(r, i + 1)

AllObs(r) == ObsFrom(r, 1)

(* The series every output row of get_datos_tabla stems from: a series     *)
(* stands for as many rows as it has observations, and for one row when it *)
(* has none.                                                               *)
RECURSIVE OwnersFrom(_, _)
OwnersFrom(r, i) ==
    IF i > Len(r) THEN <<>>
    ELSE [k \in 1..(IF NObs(r[i]) = 0 THEN 1 ELSE NObs(r[i])) |-> i] \o OwnersFrom(r, i + 1)

RowOwners(r) == OwnersFrom(r, 1)

MetaLabels(r) == UNION {DOMAIN r[i] : i \in 1..Len(r)} \ {"Data"}

ObsLabels(r) == UNION {DOMAIN AllObs(r)[i].rec : i \in 1..Len(AllObs(r))}

Coerced == {"Fecha", "Valor"}

HasData(r) == \E i \in 1..Len(r) : "Data" \in DOMAIN r[i]

(* A label the code coerces names a series field and an observation field. *)
CoercedTwice(r) == MetaLabels(r) \cap ObsLabels(r) \cap Coerced # {}

RichDone == df # NoFrame

RichOk == df # NoFrame /\ df.exc = ""

HelperDone == filas # NoFrame

HelperOk == filas # NoFrame /\ filas.exc = ""

NMeta(r) == Cardinality(MetaLabels(r))

(* The cell of row k in the metadata (resp. observation) column labelled l.*)
MetaCell(f, r, k, l) ==
    IF \E j \in 1..NMeta(r) : f.columns[j] = l
    THEN f.rows[k][CHOOSE j \in 1..NMeta(r) : f.columns[j] = l]
    ELSE Null

ObsCell(f, r, k, l) ==
    IF \E j \in (NMeta(r) + 1)..Len(f.columns) : f.columns[j] = l
    THEN f.rows[k][CHOOSE j \in (NMeta(r) + 1)..Len(f.columns) : f.columns[j] = l]
    ELSE Null

(* The response without the series whose "Data" list is empty.             *)
WithoutEmpty(r) == SelectSeq(r, LAMBDA s : ~("Data" \in DOMAIN s /\ Len(s["Data"]) = 0))

(* C1: the number of rows get_datos_tabla returns is the sum of the        *)
(* series' observation counts; an empty response gives an empty table and  *)
(* no error.                                                               *)
C1_RowCountIsSum ==
    /\ RichOk => Len(df.rows) = Len(AllObs(raw))
    /\ RichDone /\ Len(raw) = 0 => df = EmptyFrame

(* C2: a series with an empty observation list contributes no row, in      *)
(* get_datos_tabla and in descargar_tabla_ine_json: dropping such series   *)
(* from the response leaves the number of rows unchanged.                  *)
C2_EmptySeriesNoRow ==
    /\ RichOk /\ DatosFrame(WithoutEmpty(raw)).exc = ""
          => Len(df.rows) = Len(DatosFrame(WithoutEmpty(raw)).rows)
    /\ HelperOk /\ HelperFrame(WithoutEmpty(raw)).exc = ""
          => Len(filas.rows) = Len(HelperFrame(WithoutEmpty(raw)).rows)

(* C3: row i of get_datos_tabla is observation i of the concatenated       *)
(* observation lists, with the metadata of the series it came from (the    *)
(* fields the code coerces are compared by C5).                            *)
C3_RowOrderStable ==
    RichOk =>
        \A k \in 1..Len(df.rows) :
            /\ k <= Len(AllObs(raw))
            /\ \A l \in MetaLabels(raw) \ Coerced :
                   MetaCell(df, raw, k, l) = Get(raw[AllObs(raw)[k].idx], l)
            /\ \A l \in ObsLabels(raw) \ Coerced :
                   ObsCell(df, raw, k, l) = Get(AllObs(raw)[k].rec, l)

(* The table of line 64, before the two coercions.                         *)
Merged == concat(raw)

(* A string that spells a decimal number: digits with at most one point.   *)
IsDecimal(chars) ==
    /\ \A i \in 1..Len(chars) : chars[i] \in Digits \cup {"."}
    /\ Cardinality({i \in 1..Len(chars) : chars[i] = "."}) <= 1
    /\ \E i \in 1..Len(chars) : chars[i] \in Digits

(* The decimal numeral of the number m / 10^d (m >= 0, d >= 0), d digits   *)
(* after the point and no point when d = 0.                                *)
RECURSIVE DigitsOf(_)
DigitsOf(m) ==
    IF m < 10 THEN <<DigitChars[m + 1]>> ELSE DigitsOf(m \div 10) \o <<DigitChars[(m % 10) + 1]>>

RECURSIVE PadLeft(_, _)
PadLeft(ds, n) == IF Len(ds) >= n THEN ds ELSE PadLeft(<<"0">> \o ds, n)

Numeral(v) ==
    LET ds == PadLeft(DigitsOf(v.a), v.b + 1)
    IN  IF v.b = 0 THEN ds
        ELSE SubSeq(ds, 1, Len(ds) - v.b) \o <<".">> \o SubSeq(ds, Len(ds) - v.b + 1, Len(ds))

(* A numeral as Numeral writes it: a digit on both sides of the point, no  *)
(* padding zero.                                                           *)
IsPlain(chars) ==
    /\ IsDecimal(chars)
    /\ chars[1] # "." /\ chars[Len(chars)] # "."
    /\ (chars[1] = "0" => Len(chars) = 1 \/ chars[2] = ".")
    /\ ((\E i \in 1..Len(chars) : chars[i] = ".") => chars[Len(chars)] # "0")

(* What the Fecha cell pre becomes: a whole number of milliseconds is the  *)
(* instant that many milliseconds after the epoch, text that is no number  *)
(* and a missing value are the null date.                                  *)
FechaCoerced(pre, post) ==
    /\ pre.t = "num" /\ pre.b = 0 =>
          /\ post.t = "date"
          /\ post.b \in 0..(MS_PER_DAY - 1)
          /\ post.a * MS_PER_DAY + post.b = pre.a
    /\ pre.t = "str" /\ ~IsDecimal(pre.s) => post = Null
    /\ pre.t = "null" => post = Null

(* What the Valor cell pre becomes: a number stays, a numeral becomes the  *)
(* number it spells, other text and a missing value become null.           *)
ValorCoerced(pre, post) ==
    /\ pre.t = "num" => post = pre
    /\ pre.t = "str" /\ IsDecimal(pre.s) => post.t = "num"
    /\ pre.t = "str" /\ IsPlain(pre.s) => Numeral(post) = pre.s
    /\ pre.t = "str" /\ ~IsDecimal(pre.s) => post = Null
    /\ pre.t = "null" => post = Null

(* C4 as stated: the flattening yields rows whenever some series has a     *)
(* "Data" field, and every row carries each metadata field of its series   *)
(* unchanged, whatever the field is called and whatever the observations'  *)
(* fields are called.                                                      *)
C4_MetadataBroadcastAnyName ==
    RichDone /\ HasData(raw) =>
        /\ df.exc = ""
        /\ \A k \in 1..Len(df.rows) : \A l \in MetaLabels(raw) :
               MetaCell(df, raw, k, l) = Get(raw[RowOwners(raw)[k]], l)

(* C4 amended: the metadata columns are the series' fields other than      *)
(* "Data"; every row carries the fields of its series (null where the      *)
(* series lacks one), so the rows of one series agree on them; an          *)
(* observation field called like a metadata field gets a column of its own *)
(* beside it.  A metadata field called Fecha or Valor is coerced like an   *)
(* observation's (the date or number it spells, else null); and the        *)
(* flattening raises exactly when no series has a "Data" field or Fecha or *)
(* Valor names both a series field and an observation field.               *)
C4_MetadataBroadcast ==
    /\ RichDone /\ Len(raw) > 0 => (df.exc # "" <=> (~HasData(raw) \/ CoercedTwice(raw)))
    /\ RichOk /\ Len(raw) > 0 =>
        LET owners == RowOwners(raw)
            metas == MetaLabels(raw)
            obs == ObsLabels(raw)
            n == Cardinality(metas)
            col(l) == CHOOSE j \in 1..n : df.columns[j] = l
        IN  /\ Len(df.rows) = Len(owners)
            /\ {df.columns[j] : j \in 1..n} = metas
            /\ {df.columns[j] : j \in (n + 1)..Len(df.columns)} = obs
            /\ \A k \in 1..Len(df.rows) :
                /\ Len(df.rows[k]) = n + Cardinality(obs)
                /\ \A l \in metas \ Coerced : df.rows[k][col(l)] = Get(raw[owners[k]], l)
                /\ "Fecha" \in metas =>
                       FechaCoerced(Get(raw[owners[k]], "Fecha"), df.rows[k][col("Fecha")])
                /\ "Valor" \in metas =>
                       ValorCoerced(Get(raw[owners[k]], "Valor"), df.rows[k][col("Valor")])
                /\ \A k2 \in 1..Len(df.rows) : \A l \in metas :
                       owners[k] = owners[k2] => df.rows[k][col(l)] = df.rows[k2][col(l)]

(* C4 witness: a table of two series with different metadata, one of them  *)
(* with an observation field called like a metadata field.                 *)
C4_Witness ==
    /\ RichOk
    /\ Len(df.rows) >= 2
    /\ Cardinality(ColsNamed(df.columns, "Nombre")) = 2
    /\ \E k \in 1..Len(df.rows) : df.rows[k][1] # df.rows[1][1]

(* C5: the two coercions never raise because of a value and change only    *)
(* the Fecha and Valor cells: the table has the rows and columns of the    *)
(* merged table in the same order, every other cell is unchanged, a Fecha  *)
(* cell becomes epoch + that many milliseconds or null, a Valor cell its   *)
(* number or null.                                                         *)
C5_CoercionAbsorbed ==
    /\ RichDone /\ HasData(raw) /\ ~CoercedTwice(raw) => df.exc = ""
    /\ RichOk /\ Len(raw) > 0 =>
        LET merged == Merged
        IN  /\ df.columns = merged.columns
            /\ Len(df.rows) = Len(merged.rows)
            /\ \A k \in 1..Len(df.rows) :
                /\ Len(df.rows[k]) = Len(df.columns)
                /\ \A j \in 1..Len(df.columns) :
                     CASE df.columns[j] = "Fecha" -> FechaCoerced(merged.rows[k][j], df.rows[k][j])
                       [] df.columns[j] = "Valor" -> ValorCoerced(merged.rows[k][j], df.rows[k][j])
                       [] OTHER -> df.rows[k][j] = merged.rows[k][j]

(* C5 witness: a table with a timestamp and a value that cannot be         *)
(* converted, a timestamp that can, and a numeral.                         *)
C5_Witness ==
    /\ RichOk
    /\ \E k \in 1..Len(df.rows) : \E j \in ColsNamed(df.columns, "Fecha") :
           Merged.rows[k][j].t = "str" /\ df.rows[k][j] = Null
    /\ \E k \in 1..Len(df.rows) : \E j \in ColsNamed(df.columns, "Fecha") :
           Merged.rows[k][j].t = "num" /\ df.rows[k][j].t = "date" /\ df.rows[k][j].a = 1
    /\ \E k \in 1..Len(df.rows) : \E j \in ColsNamed(df.columns, "Valor") :
           Merged.rows[k][j].t = "str" /\ df.rows[k][j] = Null
    /\ \E k \in 1..Len(df.rows) : \E j \in ColsNamed(df.columns, "Valor") :
           Merged.rows[k][j].t = "str" /\ df.rows[k][j].t = "num"

(* C8: a field missing from a series or from an observation fails neither  *)
(* flattener: descargar_tabla_ine_json returns a table with a row for each *)
(* observation, and so does get_datos_tabla unless the response has no     *)
(* "Data" column or a coerced label twice.                                 *)
C8_MissingFieldTolerated ==
    /\ HelperDone => filas.exc = "" /\ Len(filas.rows) = Len(AllObs(raw))
    /\ RichDone /\ HasData(raw) /\ ~CoercedTwice(raw) =>
          df.exc = "" /\ Len(df.rows) >= Len(AllObs(raw))

(* C10: whenever both flatteners return a table, the tables have the same  *)
(* number of rows and row k of descargar_tabla_ine_json holds the trimmed  *)
(* name, the code, the period, the year and the value (before coercion) of *)
(* row k of get_datos_tabla, and nothing else.                             *)
C10_HelperIsProjection ==
    RichOk /\ HelperOk /\ Len(raw) > 0 =>
        /\ Len(filas.rows) = Len(df.rows)
        /\ \A k \in 1..Len(filas.rows) :
            /\ k <= Len(df.rows)
            /\ Len(filas.rows[k]) = 5
            /\ MetaCell(df, raw, k, "Nombre").t = "str"
            /\ filas.rows[k][1] = Str(Strip(MetaCell(df, raw, k, "Nombre").s))
            /\ filas.rows[k][2] = MetaCell(df, raw, k, "COD")
            /\ filas.rows[k][3] = ObsCell(df, raw, k, "FK_Periodo")
            /\ filas.rows[k][4] = ObsCell(df, raw, k, "Anyo")
            /\ to_numeric(filas.rows[k][5]) = ObsCell(df, raw, k, "Valor")

----------------------------------------------------------------------------
(* Properties of the CLI (checked under Spec)                              *)

Exited == pc = "exit"

(* The GET was issued and failed: no dataframe was ever built.             *)
FetchFailed == gets = 1 /\ df = NoFrame /\ pc \in {"except", "exit"}

LastLine(out) == out[Len(out)]

(* Some step of main is possible.  The steps that take an input from a set *)
(* are enabled whenever their failing twin is, and the three get_*         *)
(* functions are total: one of them is enabled at "transform" whenever the *)
(* command is one of the three.                                            *)
CanStep ==
    \/ pc = "transform" /\ args.comando \in {"operaciones", "tablas", "datos"}
    \/ ENABLED parse_args_error \/ ENABLED call_func \/ ENABLED fetch_json_error
    \/ ENABLED cmd_operaciones \/ ENABLED cmd_tablas \/ ENABLED cmd_datos
    \/ ENABLED cmd_datos_export \/ ENABLED main_return \/ ENABLED main_except

(* C6 as stated: every run ends with exit code 0 or 1: 0 when nothing was  *)
(* raised, 1 with a line on the error stream otherwise.                    *)
C6_ExitZeroOrOne ==
    Exited =>
        /\ exitCode \in {0, 1}
        /\ exitCode = 0 <=> (exc = "" /\ stderr = <<>>)
        /\ exitCode = 1 <=> (exc # "" /\ Len(stderr) = 1)

(* C6 amended: a run stops only by exiting.  A command line that asks for  *)
(* help ends with code 0 after the help text and one that does not parse   *)
(* with code 2 and the usage on the error stream, both before any command  *)
(* runs.  A run of a command ends with code 0 exactly when nothing was     *)
(* raised: then the GET was made, the dataframe was built, the error       *)
(* stream is empty and the last line printed is the command's result or    *)
(* its no-results line.  It ends with code 1 exactly when the GET failed   *)
(* or something else was raised, with one line on the error stream, the    *)
(* connection message for a RequestException.                              *)
C6_ExitCodes ==
    /\ ~Exited => exitCode = -1 /\ CanStep
    /\ Exited /\ args = NoArgs =>
          /\ gets = 0
          /\ \/ exitCode = 2 /\ stderr = <<Line("usage", 0)>> /\ stdout = <<>>
             \/ exitCode = 0 /\ stdout = <<Line("help", 0)>> /\ stderr = <<>>
    /\ Exited /\ args # NoArgs =>
          /\ exitCode \in {0, 1}
          /\ exitCode = 0 <=> exc = ""
          /\ exitCode = 0 =>
                /\ gets = 1 /\ df # NoFrame /\ df.exc = "" /\ stderr = <<>>
                /\ LastLine(stdout).kind \in {"noresults", "total", "vista", "exportado"}
          /\ exitCode = 1 =>
                /\ Len(stderr) = 1
                /\ stderr[1].kind = IF exc = "RequestException" THEN "conexion" ELSE "error"
          /\ FetchFailed => exitCode = 1
          /\ df # NoFrame /\ df.exc # "" => exitCode = 1

(* C6 witness: a run whose GET failed has ended with code 1 and the        *)
(* connection message.                                                     *)
C6_Witness ==
    /\ Exited /\ FetchFailed /\ exitCode = 1
    /\ exc = "RequestException" /\ stderr = <<Line("conexion", 0)>>

(* text contains pat, letter case ignored.                                 *)
LiteralSearch(pat, text) ==
    \E off \in 0..(Len(text) - Len(pat)) :
        \A j \in 1..Len(pat) : Lower(pat[j]) = Lower(text[off + j])

(* The operations whose name contains the text, in the order of the        *)
(* response, as cmd_operaciones lists them.                                *)
Containing(text) ==
    SelectSeq(raw, LAMBDA op : LiteralSearch(text, op["Nombre"].s))

ExpectedListing(ops) ==
    <<Line("header", 0), Line("rule", 0)>>
    \o [k \in 1..Len(ops) |-> Line("row", ops[k]["Id"].a)]
    \o <<Line("total", Len(ops))>>

(* C7: operaciones --buscar TEXT lists exactly the operations whose name   *)
(* contains TEXT, letter case ignored; when there is none it prints the    *)
(* no-results line and no table; either way it exits with code 0 (stated   *)
(* here for a response that lists at least one operation).                 *)
C7_BuscarIsSubstringFilter ==
    Exited /\ args.comando = "operaciones" /\ args.buscar.t = "str" /\ Len(raw) > 0 =>
        /\ exitCode = 0
        /\ stdout = IF Len(Containing(args.buscar.s)) = 0 THEN <<Line("noresults", 0)>>
                    ELSE ExpectedListing(Containing(args.buscar.s))

IsResultLine(line) == line.kind \notin {"descargando"}

(* C9 as stated: at most one GET, and nothing is written to the console or *)
(* to the file before the GET and the transform are done; a failed GET     *)
(* ends with code 1, no transform and no file; the file is written only    *)
(* by datos, after a successful GET and flattening, with --output given    *)
(* and a table that is not empty.                                          *)
C9_FetchTransformWrite ==
    args # NoArgs =>
        /\ gets <= 1
        /\ stdout # <<>> \/ csv # NoFrame => gets = 1 /\ df # NoFrame /\ df.exc = ""
        /\ FetchFailed => csv = NoFrame /\ (Exited => exitCode = 1)
        /\ csv # NoFrame => args.comando = "datos" /\ Truthy(args.output) /\ ~IsEmpty(df)

(* C9 amended: at most one GET; the only line printed before the GET is    *)
(* the progress line of datos, which is its first; every other line and    *)
(* the file are written after the GET succeeded and the dataframe was      *)
(* built without error; a failed GET ends with code 1, no dataframe, no    *)
(* file and no line but the progress line; the file is written only by     *)
(* datos, holds the flattened response, and only with --output given and   *)
(* a table that is not empty.                                              *)
C9_SingleGetThenWrite ==
    args # NoArgs =>
        /\ gets <= 1
        /\ gets = 1 => ~ENABLED fetch_json /\ ~ENABLED fetch_json_error
        /\ \A i \in 1..Len(stdout) :
              /\ IsResultLine(stdout[i]) => gets = 1 /\ df # NoFrame /\ df.exc = ""
              /\ ~IsResultLine(stdout[i]) => i = 1 /\ args.comando = "datos"
        /\ FetchFailed =>
              /\ csv = NoFrame
              /\ \A i \in 1..Len(stdout) : ~IsResultLine(stdout[i])
              /\ Exited => exitCode = 1
        /\ csv # NoFrame =>
              /\ args.comando = "datos" /\ Truthy(args.output)
              /\ gets = 1 /\ df.exc = "" /\ ~IsEmpty(df)
              /\ csv = df /\ df = DatosFrame(raw)
              /\ \E i \in 1..Len(stdout) : stdout[i].kind = "registros"

(* C9 witness: datos --output has written the flattened table and exited   *)
(* with code 0.                                                            *)
C9_Witness ==
    /\ Exited /\ exitCode = 0 /\ args.comando = "datos"
    /\ csv # NoFrame /\ Len(csv.rows) > 0 /\ gets = 1

====
